---- MODULE Spec2Model ----
(***************************************************************************)
(* State-machine model of the graph widgets of opcua-client-gui:           *)
(*   - GraphUI            (uaclient/graphwidget.py)        mode "scalar"   *)
(*   - GraphArraysUI      (uaclient/graphwidget.py)        mode "array"    *)
(*   - GraphArraysUI      (uaclient/graphwidget_arrays.py) mode "standalone"*)
(* One widget is modelled at a time; which one is fixed by Init.           *)
(* The plotting library, the GUI toolkit and the OPC UA client are the     *)
(* environment: every call into them returns a value drawn from a bounded  *)
(* set, or raises.                                                         *)
(***************************************************************************)
EXTENDS Integers, Sequences, FiniteSets, TLC

\* ------------------------------------------------------------------ bounds
NumNodes == 2       \* distinct OPC UA nodes the user can select
MaxN == 2           \* largest value of spinBoxNumberOfPoints
MaxInterval == 1    \* largest value of spinBoxIntervall
MaxVal == 1         \* scalar samples are 1..MaxVal
MaxArrLen == 3      \* longest array value a node returns
MaxCurves == 2      \* cap on len(_curves): failed removes leak curves
MaxFaults == 1      \* add/remove handlers that an exception leaves half-way
RingMaxN == 5       \* largest window size of the ring-buffer scenario
MaxTimerInterval == 2   \* largest poll interval of the timer scenario

\* -------------------------------------------------------- program constants
\* GraphUI.colorCycle / GraphArraysUI.colorCycle (tango colour scheme)
colorCycle == << "#4e9a06ff", "#ce5c00ff", "#3465a4ff",
                 "#75507bff", "#cc0000ff", "#edd400ff" >>
\* GraphUI.acceptedDatatypes
acceptedDatatypes == {"Decimal128", "Double", "Float", "Integer", "UInteger"}
\* interval of the timer the standalone array widget creates in __init__
StandaloneInterval == 1000

\* ------------------------------------------------------------- environment
Nodes == 1..NumNodes
None == 0                       \* window.get_current_node() found no selection
Modes == {"scalar", "array", "standalone"}

\* names ua.ObjectIdNames can yield for a node's DataType attribute
DataTypeNames == {"Double", "UInteger", "String", "Boolean"}

\* node.read_display_name().Text, a fixed label per node
DisplayName(node) == node

Range(s) == {s[i] : i \in DOMAIN s}

\* what node.get_value() can produce: python values tagged with their type
Val(k, v, a) == [kind |-> k, val |-> v, arr |-> a]
RAISE == Val("raise", 0, << >>)          \* the read raised
\* array values: <<1, 2, ..., k>>, so that every element differs from the others
Upto(k) == [i \in 1..k |-> i]
ArrayContents == {Upto(k) : k \in 1..MaxArrLen}
ArrayKinds == {"list", "tuple", "ndarray"}
ScalarValues == {Val("float", v, << >>) : v \in 1..MaxVal}
                   \cup {Val("int", 1, << >>), Val("str", 0, << >>)}
ArrayValues == {Val(k, 0, a) : k \in ArrayKinds, a \in ArrayContents}
\* get_value() results offered to the scalar widget: every scalar, and of the
\* sequence types one list, one tuple, a one-element and a longer ndarray
ScalarModeResults == ScalarValues \cup {RAISE}
    \cup {Val("list", 0, Upto(2)), Val("tuple", 0, Upto(2)),
          Val("ndarray", 0, Upto(1)), Val("ndarray", 0, Upto(2))}
\* get_value() results offered to the array widgets: every array, and of the
\* values that are no array a number and a string
ArrayModeResults == ArrayValues \cup {RAISE}
    \cup {Val("float", 1, << >>), Val("str", 0, << >>)}
\* get_value() results offered to a tick of the array widgets: one array of
\* each type and length, a raising read and a number
ArrayTickResults ==
    {Val("list", 0, Upto(1)), Val("tuple", 0, Upto(2)), Val("ndarray", 0, Upto(3)),
     RAISE, Val("float", 1, << >>)}

\* a variant of IsArray: anything with a length, strings included
IsArray_Sized(v) == v.kind \in {"list", "tuple", "ndarray", "str"}
\* a variant of IsArray: isinstance(value, list) alone
IsArray_ListOnly(v) == v.kind = "list"
\* isinstance(value, (list, tuple)) or isinstance(value, np.ndarray)
IsArray(v) == v.kind \in {"list", "tuple", "ndarray"}
\* isinstance(value, list)
IsList(v) == v.kind = "list"

\* np.array(value) if isinstance(value, list) else value
ToArrData(v) == IF IsList(v) THEN Val("ndarray", 0, v.arr) ELSE v

\* a variant of CanFloat: strings coerce as well
CanFloat_Lenient(v) ==
    \/ v.kind \in {"float", "int", "str"}
    \/ v.kind = "ndarray" /\ Len(v.arr) = 1
\* float(value): TRUE when the coercion succeeds. Numbers coerce, a one-element
\* ndarray coerces to its element, strings, lists, tuples and other arrays raise.
CanFloat(v) ==
    \/ v.kind \in {"float", "int"}
    \/ v.kind = "ndarray" /\ Len(v.arr) = 1
ToFloat(v) == IF v.kind = "ndarray" THEN v.arr[1] ELSE v.val

\* a variant of Arange: np.arange(1, n + 1)
Arange_FromOne(n) == [i \in 1..n |-> i]
\* np.arange(n)
Arange(n) == [i \in 1..n |-> i - 1]
\* np.zeros(n)
Zeros(n) == Val("ndarray", 0, [i \in 1..n |-> 0])
\* a variant of Roll: np.roll(a, 1), a shift to the right
Roll_Right(a) == IF a.arr = << >> THEN a
                 ELSE [a EXCEPT !.arr = << a.arr[Len(a.arr)] >> \o SubSeq(a.arr, 1, Len(a.arr) - 1)]
\* np.roll(a, -1): circular shift to the left by one
Roll(a) == IF a.arr = << >> THEN a
           ELSE [a EXCEPT !.arr = Tail(a.arr) \o << Head(a.arr) >>]
\* a[-1] = x
SetLast(a, x) == [a EXCEPT !.arr = [a.arr EXCEPT ![Len(a.arr)] = x]]

\* list.pop(idx), idx counted from 1 here
Pop(s, idx) == SubSeq(s, 1, idx - 1) \o SubSeq(s, idx + 1, Len(s))
\* list.index(x), counted from 1 here
IndexOf(s, x) == CHOOSE i \in 1..Len(s) : s[i] = x /\ \A j \in 1..(i - 1) : s[j] # x


\* ------------------------------------------------------------------- state
VARIABLES
    mode,        \* which widget class is instantiated
    pc,          \* "new" before __init__, "super" after GraphUI.__init__ ran
                 \* inside GraphArraysUI.__init__, "ready" once constructed
    _node_list,  \* self._node_list: the nodes to poll
    _channels,   \* self._channels: one buffer per tracked node
    _curves,     \* self._curves: the curve objects (render handles)
    pwItems,     \* ids of the curves attached to self.pw
    N,           \* self.N
    ts,          \* self.ts
    intervall,   \* self.intervall
    timer,       \* self.timer: whether the attribute exists, whether the QTimer
                 \* is active, its interval; unstopped counts the QTimer objects
                 \* started earlier that self.timer no longer names and that
                 \* were never stopped
    faults,      \* history: add/remove handlers an exception left half-way
    ring,        \* history of the samples written to each channel (see RingStart)
    last         \* history: the handler that ran last and the branch it took

vars == << mode, pc, _node_list, _channels, _curves, pwItems,
           N, ts, intervall, timer, faults, ring, last >>
lists == << _node_list, _channels, _curves >>

\* A channel is the numpy buffer (data); owner is history, not program state:
\* the id of the curve created by the add that created the channel.
Channel(d, o) == [data |-> d, owner |-> o]
\* A curve: pw.plot(pen=mkPen(color=...), name=...) and the data last given
\* to setData.
Curve(i, nm, col) == [id |-> i, name |-> nm, color |-> col, x |-> << >>, y |-> << >>]
\* curve.setData(x, y)
SetData(c, xs, ys) == [c EXCEPT !.x = xs, !.y = ys]
\* curve.setData(y): x defaults to the sample index
SetDataY(c, ys) == [c EXCEPT !.x = Arange(Len(ys)), !.y = ys]

\* op: the handler; outcome: the branch it took; idx: the list index it acted
\* on (add, remove) or the index at which the tick loop ended early; skipped:
\* the indices an array tick did not update.
Last(o, out, i, sk) == [op |-> o, outcome |-> out, idx |-> i, skipped |-> sk]

CurveIds == {_curves[i].id : i \in DOMAIN _curves}
\* identity of a newly created curve object: the least id no live curve has
FreshId == CHOOSE i \in 1..(MaxCurves + 1) :
              /\ i \notin (CurveIds \cup pwItems)
              /\ \A j \in 1..(i - 1) : j \in (CurveIds \cup pwItems)

\* a variant of IsTracked: only the node added last is compared
IsTracked_LastOnly(node) == _node_list # << >> /\ _node_list[Len(_node_list)] = node
\* node in self._node_list
IsTracked(node) == node \in Range(_node_list)

\* len(self._node_list) % len(self.colorCycle), evaluated after the append,
\* used as a 0-based index into colorCycle
ColorFor(nodes) == colorCycle[(Len(nodes) % Len(colorCycle)) + 1]

Init ==
    /\ mode \in Modes
    /\ pc = "new"
    /\ _node_list = << >>
    /\ _channels = << >>
    /\ _curves = << >>
    /\ pwItems = {}
    /\ N = 0
    /\ ts = << >>
    /\ intervall = 0
    /\ timer = [exists |-> FALSE, active |-> FALSE, interval |-> 0, unstopped |-> 0]
    /\ faults = 0
    /\ ring = << >>
    /\ last = Last("none", "none", 0, {})

\* ------------------------------------------------------------ restartTimer
\* a variant of ZeroedChannels: np.zeros(len(channel)) keeps the old length
ZeroedChannels_OldLen(n) ==
    [i \in DOMAIN _channels |->
        Channel(Zeros(Len(_channels[i].data.arr)), _channels[i].owner)]
\* self._channels[i] = np.zeros(self.N), for every channel
ZeroedChannels(n) ==
    [i \in DOMAIN _channels |-> Channel(Zeros(n), _channels[i].owner)]

\* a variant of StoppedTimer: the running timer is left running
StoppedTimer_Skip(t) == t
\* if hasattr(self, 'timer') and self.timer.isActive(): self.timer.stop()
StoppedTimer(t) == IF t.exists /\ t.active THEN [t EXCEPT !.active = FALSE] ELSE t

\* a variant of NewTimer: the timer is created and connected, not started
NewTimer_NotStarted(t, iv) ==
    [exists |-> TRUE, active |-> FALSE, interval |-> iv,
     unstopped |-> t.unstopped + (IF t.active THEN 1 ELSE 0)]
\* self.timer = QTimer(); setInterval(iv); timeout.connect(...); start().
\* t is the timer self.timer named until now: when it is still running it
\* keeps running, unreferenced.
NewTimer(t, iv) ==
    [exists |-> TRUE, active |-> TRUE, interval |-> iv,
     unstopped |-> t.unstopped + (IF t.active THEN 1 ELSE 0)]

\* a timeout signal can arrive: some QTimer that was started is still running
Firing == timer.active \/ timer.unstopped > 0

\* The body of GraphUI.restartTimer with the spin boxes showing n and iv.
RestartTimerBody(n, iv) ==
    /\ N' = n
    /\ ts' = Arange(n)
    /\ intervall' = iv
    /\ _channels' = ZeroedChannels(n)
    /\ _curves' = [i \in DOMAIN _curves |->
                        IF i \in DOMAIN _channels
                        THEN SetDataY(_curves[i], Zeros(n).arr)
                        ELSE _curves[i]]
    /\ timer' = NewTimer(StoppedTimer(timer), iv)
    /\ UNCHANGED << _node_list, pwItems, faults >>

\* the Apply button: buttonApply.clicked -> restartTimer
RestartTimer(n, iv) ==
    /\ pc = "ready"
    /\ mode \in {"scalar", "array"}
    /\ RestartTimerBody(n, iv)
    /\ last' = Last("restart", "restarted", 0, {})
    /\ UNCHANGED << mode, pc >>

\* ---------------------------------------------------------------- __init__
\* GraphUI.__init__ (ends with restartTimer); for the array widget this is
\* the super().__init__ call.
ConstructGraphUI(n, iv) ==
    /\ pc = "new"
    /\ mode \in {"scalar", "array"}
    /\ RestartTimerBody(n, iv)
    /\ pc' = IF mode = "scalar" THEN "ready" ELSE "super"
    /\ last' = Last("init", "restarted", 0, {})
    /\ UNCHANGED mode

\* rest of GraphArraysUI.__init__ of graphwidget.py: a second restartTimer
ConstructGraphArraysUI(n, iv) ==
    /\ pc = "super"
    /\ mode = "array"
    /\ RestartTimerBody(n, iv)
    /\ pc' = "ready"
    /\ last' = Last("init", "restarted", 0, {})
    /\ UNCHANGED mode

\* GraphArraysUI.__init__ of graphwidget_arrays.py: a one-second timer
ConstructStandalone ==
    /\ pc = "new"
    /\ mode = "standalone"
    /\ pc' = "ready"
    /\ timer' = NewTimer(timer, StandaloneInterval)
    /\ last' = Last("init", "started", 0, {})
    /\ UNCHANGED << mode, _node_list, _channels, _curves, pwItems,
                    N, ts, intervall, faults >>

\* ------------------------------------------------- GraphUI._add_node_to_channel
\* node: the selected node (None: nothing selected). dt: the name of the node's
\* DataType attribute, "raise" when the attribute read or the name lookup
\* raises. v: what node.get_value() gives. nameOk / plotOk: whether
\* read_display_name() and pw.plot() return normally. An exception leaves the
\* handler at the call that raised; trycatchslot reports it.
AddScalar(node, dt, v, nameOk, plotOk) ==
    /\ pc = "ready"
    /\ mode = "scalar"
    /\ UNCHANGED << mode, pc, N, ts, intervall, timer >>
    /\ IF node = None
       THEN UNCHANGED << _node_list, _channels, _curves, pwItems, faults, last >>
       ELSE IF IsTracked(node)
       THEN /\ last' = Last("add", "dup", 0, {})
            /\ UNCHANGED << _node_list, _channels, _curves, pwItems, faults >>
       ELSE IF dt = "raise" \/ (dt \in acceptedDatatypes /\ v = RAISE)
       THEN /\ last' = Last("add", "read_error", 0, {})
            /\ UNCHANGED << _node_list, _channels, _curves, pwItems, faults >>
       ELSE IF ~(dt \in acceptedDatatypes /\ ~IsList(v))
       THEN /\ last' = Last("add", "rejected", 0, {})
            /\ UNCHANGED << _node_list, _channels, _curves, pwItems, faults >>
       ELSE /\ _node_list' = Append(_node_list, node)
            /\ IF ~nameOk \/ ~plotOk
               THEN /\ faults < MaxFaults
                    /\ faults' = faults + 1
                    /\ last' = Last("add", "error", 0, {})
                    /\ UNCHANGED << _channels, _curves, pwItems >>
               ELSE /\ Len(_curves) < MaxCurves
                    /\ LET id == FreshId
                           ch == Channel(Zeros(N), id)
                           cv == Curve(id, DisplayName(node), ColorFor(_node_list'))
                       IN  /\ _channels' = Append(_channels, ch)
                           /\ _curves' = Append(_curves, SetDataY(cv, ch.data.arr))
                           /\ pwItems' = pwItems \cup {id}
                    /\ last' = Last("add", "added", Len(_node_list'), {})
                    /\ UNCHANGED faults

\* -------------------------------------------- GraphUI._remove_node_from_channel
\* a variant of RemovedChannels: self._channels.pop() drops the last channel
RemovedChannels_Last(idx) == Pop(_channels, Len(_channels))
\* self._channels.pop(idx)
RemovedChannels(idx) == Pop(_channels, idx)
\* self._curves.pop(idx)
RemovedCurves(idx) == Pop(_curves, idx)

\* fail names the external call that raises: "name" (read_display_name),
\* "legend" (legend.removeItem), "plot" (pw.removeItem), or "none". All three
\* calls come after _node_list.pop(idx) and before the other two pops.
\* The array widget of graphwidget.py inherits this handler.
RemoveScalar(node, fail) ==
    /\ pc = "ready"
    /\ mode \in {"scalar", "array"}
    /\ UNCHANGED << mode, pc, N, ts, intervall, timer >>
    /\ IF node = None
       THEN UNCHANGED << _node_list, _channels, _curves, pwItems, faults, last >>
       ELSE IF ~IsTracked(node)
       THEN /\ last' = Last("remove", "untracked", 0, {})
            /\ UNCHANGED << _node_list, _channels, _curves, pwItems, faults >>
       ELSE LET idx == IndexOf(_node_list, node)
            IN  /\ _node_list' = Pop(_node_list, idx)
                /\ IF fail # "none"
                   THEN /\ faults < MaxFaults
                        /\ faults' = faults + 1
                        /\ last' = Last("remove", "error", idx, {})
                        /\ UNCHANGED << _channels, _curves, pwItems >>
                   ELSE IF idx > Len(_curves)     \* self._curves[idx]: IndexError
                   THEN /\ last' = Last("remove", "index_error", idx, {})
                        /\ UNCHANGED << _channels, _curves, pwItems, faults >>
                   ELSE /\ pwItems' = pwItems \ {_curves[idx].id}
                        /\ _curves' = RemovedCurves(idx)
                        /\ _channels' = RemovedChannels(idx)
                        /\ last' = Last("remove", "removed", idx, {})
                        /\ UNCHANGED faults

\* ------------------------------------------------------- GraphUI.pushtoGraph
\* channel i after a tick whose read or float() raised: the result of np.roll
\* has already been stored, no sample is written
Shifted(ch) == [ch EXCEPT !.data = Roll(ch.data)]
\* channel i after a tick that fetched x
Pushed(ch, x) == [ch EXCEPT !.data = SetLast(Roll(ch.data), x)]

\* The loop of pushtoGraph from index i on, res[j] being what get_value() of
\* the j-th node gives. The result holds the lists as the loop leaves them and
\* the index at which an exception ended it (0: it ran to the end).
RECURSIVE ScalarLoop(_, _, _, _, _)
ScalarLoop(i, nodes, chans, crvs, res) ==
    IF i > Len(nodes)
    THEN [chans |-> chans, crvs |-> crvs, abort |-> 0, why |-> "done"]
    ELSE IF i > Len(chans)
    THEN [chans |-> chans, crvs |-> crvs, abort |-> i, why |-> "index_error"]
    ELSE IF res[i] = RAISE \/ ~CanFloat(res[i])
    THEN [chans |-> [chans EXCEPT ![i] = Shifted(chans[i])],
          crvs |-> crvs, abort |-> i, why |-> "aborted"]
    ELSE LET ch == Pushed(chans[i], ToFloat(res[i]))
         IN  IF i > Len(crvs)
             THEN [chans |-> [chans EXCEPT ![i] = ch],
                   crvs |-> crvs, abort |-> i, why |-> "index_error"]
             ELSE ScalarLoop(i + 1, nodes, [chans EXCEPT ![i] = ch],
                             [crvs EXCEPT ![i] = SetData(crvs[i], ts, ch.data.arr)],
                             res)

\* timer.timeout -> pushtoGraph (scalar widget)
TickScalar(res) ==
    /\ pc = "ready"
    /\ mode = "scalar"
    /\ Firing
    /\ LET r == ScalarLoop(1, _node_list, _channels, _curves, res)
       IN  /\ _channels' = r.chans
           /\ _curves' = r.crvs
           /\ last' = Last("tick", r.why, r.abort, {})
    /\ UNCHANGED << mode, pc, _node_list, pwItems, N, ts, intervall, timer, faults >>

\* ------------------------------------- GraphArraysUI._add_node_to_channel
\* (graphwidget.py). Everything from get_value() on sits in one try block, so
\* an exception leaves the handler at the call that raised and is only logged.
AddArray(node, v, nameOk, plotOk) ==
    /\ pc = "ready"
    /\ mode = "array"
    /\ UNCHANGED << mode, pc, N, ts, intervall, timer >>
    /\ IF node = None
       THEN UNCHANGED << _node_list, _channels, _curves, pwItems, faults, last >>
       ELSE IF IsTracked(node)
       THEN /\ last' = Last("add", "dup", 0, {})
            /\ UNCHANGED << _node_list, _channels, _curves, pwItems, faults >>
       ELSE IF v = RAISE
       THEN /\ last' = Last("add", "read_error", 0, {})
            /\ UNCHANGED << _node_list, _channels, _curves, pwItems, faults >>
       ELSE IF ~IsArray(v)
       THEN /\ last' = Last("add", "rejected", 0, {})
            /\ UNCHANGED << _node_list, _channels, _curves, pwItems, faults >>
       ELSE /\ _node_list' = Append(_node_list, node)
            /\ IF ~nameOk \/ ~plotOk
               THEN /\ faults < MaxFaults
                    /\ faults' = faults + 1
                    /\ last' = Last("add", "error", 0, {})
                    /\ UNCHANGED << _channels, _curves, pwItems >>
               ELSE /\ Len(_curves) < MaxCurves
                    /\ LET id == FreshId
                           arr_data == ToArrData(v)
                           cv == Curve(id, DisplayName(node), ColorFor(_node_list'))
                       IN  /\ _curves' = Append(_curves,
                                  SetData(cv, Arange(Len(arr_data.arr)), arr_data.arr))
                           /\ _channels' = Append(_channels, Channel(arr_data, id))
                           /\ pwItems' = pwItems \cup {id}
                    /\ last' = Last("add", "added", Len(_node_list'), {})
                    /\ UNCHANGED faults

\* ------------------------------------------------ GraphArraysUI.pushtoGraph
\* (graphwidget.py). Each node is handled inside its own try block: a read that
\* raises, a value that is no array, or a missing list slot (IndexError) skips
\* that node only.
ArrayUpdated(i, res) == IsArray(res[i]) /\ i <= Len(_channels) /\ i <= Len(_curves)

TickArray(res) ==
    /\ pc = "ready"
    /\ mode = "array"
    /\ Firing
    /\ _channels' = [i \in DOMAIN _channels |->
           IF i <= Len(_node_list) /\ IsArray(res[i])
           THEN Channel(ToArrData(res[i]), _channels[i].owner)
           ELSE _channels[i]]
    /\ _curves' = [i \in DOMAIN _curves |->
           IF i <= Len(_node_list) /\ ArrayUpdated(i, res)
           THEN SetData(_curves[i], Arange(Len(ToArrData(res[i]).arr)),
                        ToArrData(res[i]).arr)
           ELSE _curves[i]]
    /\ last' = Last("tick", "done", 0,
                    {i \in DOMAIN _node_list : ~ArrayUpdated(i, res)})
    /\ UNCHANGED << mode, pc, _node_list, pwItems, N, ts, intervall, timer, faults >>

\* -------------------------------- graphwidget_arrays.py: GraphArraysUI.add_node
\* read_display_name() comes before the append here, pw.plot() after it.
AddStandalone(node, v, nameOk, plotOk) ==
    /\ pc = "ready"
    /\ mode = "standalone"
    /\ UNCHANGED << mode, pc, _channels, N, ts, intervall, timer >>
    /\ IF node = None
       THEN UNCHANGED << _node_list, _curves, pwItems, faults, last >>
       ELSE IF IsTracked(node)
       THEN /\ last' = Last("add", "dup", 0, {})
            /\ UNCHANGED << _node_list, _curves, pwItems, faults >>
       ELSE IF v = RAISE \/ (IsArray(v) /\ ~nameOk)
       THEN /\ last' = Last("add", "read_error", 0, {})
            /\ UNCHANGED << _node_list, _curves, pwItems, faults >>
       ELSE IF ~IsArray(v)
       THEN /\ last' = Last("add", "rejected", 0, {})
            /\ UNCHANGED << _node_list, _curves, pwItems, faults >>
       ELSE /\ _node_list' = Append(_node_list, node)
            /\ IF ~plotOk
               THEN /\ faults < MaxFaults
                    /\ faults' = faults + 1
                    /\ last' = Last("add", "error", 0, {})
                    /\ UNCHANGED << _curves, pwItems >>
               ELSE /\ Len(_curves) < MaxCurves
                    /\ LET id == FreshId
                       IN  /\ _curves' = Append(_curves,
                                  Curve(id, DisplayName(node), ColorFor(_node_list')))
                           /\ pwItems' = pwItems \cup {id}
                    /\ last' = Last("add", "added", Len(_node_list'), {})
                    /\ UNCHANGED faults

\* ----------------------------- graphwidget_arrays.py: GraphArraysUI.remove_node
RemoveStandalone(node, fail) ==
    /\ pc = "ready"
    /\ mode = "standalone"
    /\ UNCHANGED << mode, pc, _channels, N, ts, intervall, timer >>
    /\ IF node = None
       THEN UNCHANGED << _node_list, _curves, pwItems, faults, last >>
       ELSE IF ~IsTracked(node)
       THEN /\ last' = Last("remove", "untracked", 0, {})
            /\ UNCHANGED << _node_list, _curves, pwItems, faults >>
       ELSE LET idx == IndexOf(_node_list, node)
            IN  /\ _node_list' = Pop(_node_list, idx)
                /\ IF fail # "none"
                   THEN /\ faults < MaxFaults
                        /\ faults' = faults + 1
                        /\ last' = Last("remove", "error", idx, {})
                        /\ UNCHANGED << _curves, pwItems >>
                   ELSE IF idx > Len(_curves)     \* self._curves[idx]: IndexError
                   THEN /\ last' = Last("remove", "index_error", idx, {})
                        /\ UNCHANGED << _curves, pwItems, faults >>
                   ELSE /\ pwItems' = pwItems \ {_curves[idx].id}
                        /\ _curves' = RemovedCurves(idx)
                        /\ last' = Last("remove", "removed", idx, {})
                        /\ UNCHANGED faults

\* ---------------------------- graphwidget_arrays.py: GraphArraysUI.update_plot
StandaloneUpdated(i, res) == IsArray(res[i]) /\ i <= Len(_curves)

TickStandalone(res) ==
    /\ pc = "ready"
    /\ mode = "standalone"
    /\ Firing
    /\ _curves' = [i \in DOMAIN _curves |->
           IF i <= Len(_node_list) /\ StandaloneUpdated(i, res)
           THEN SetData(_curves[i], Arange(Len(ToArrData(res[i]).arr)),
                        ToArrData(res[i]).arr)
           ELSE _curves[i]]
    /\ last' = Last("tick", "done", 0,
                    {i \in DOMAIN _node_list : ~StandaloneUpdated(i, res)})
    /\ UNCHANGED << mode, pc, _node_list, _channels, pwItems,
                    N, ts, intervall, timer, faults >>

\* ------------------------------------------------------------------- clear
\* a variant of ClearGraphUI: the lists and the plot are emptied
ClearGraphUI_Empties ==
    /\ pc = "ready"
    /\ mode \in {"scalar", "array"}
    /\ _node_list' = << >>
    /\ _channels' = << >>
    /\ _curves' = << >>
    /\ pwItems' = {}
    /\ last' = Last("clear", "cleared", 0, {})
    /\ UNCHANGED << mode, pc, N, ts, intervall, timer, faults >>
\* GraphUI.clear is `pass`; the array widget of graphwidget.py inherits it.
ClearGraphUI ==
    /\ pc = "ready"
    /\ mode \in {"scalar", "array"}
    /\ last' = Last("clear", "cleared", 0, {})
    /\ UNCHANGED << mode, pc, _node_list, _channels, _curves, pwItems,
                    N, ts, intervall, timer, faults >>

\* graphwidget_arrays.py: pw.clear(), _node_list.clear(), _curves.clear()
ClearStandalone ==
    /\ pc = "ready"
    /\ mode = "standalone"
    /\ pwItems' = {}
    /\ _node_list' = << >>
    /\ _curves' = << >>
    /\ last' = Last("clear", "cleared", 0, {})
    /\ UNCHANGED << mode, pc, _channels, N, ts, intervall, timer, faults >>

\* ----------------------------------------------------------- specification
WindowSizes == 1..MaxN
Intervals == 1..MaxInterval
RemoveFailures == {"none", "name", "legend", "plot"}
\* outcomes of read_display_name() and pw.plot(): both return, the first
\* raises (the second is then never called), or only the second raises
CallResults == {<< TRUE, TRUE >>, << FALSE, TRUE >>, << TRUE, FALSE >>}
\* results of a get_value() call that is only made when `called` holds
ValuesRead(called) == IF called THEN ScalarModeResults ELSE {RAISE}
\* one get_value() result per tracked node
TickResults(results) == [1..Len(_node_list) -> results]

Next ==
    \/ \E n \in WindowSizes, iv \in Intervals :
            ConstructGraphUI(n, iv) /\ UNCHANGED ring
    \/ \E n \in WindowSizes, iv \in Intervals :
            ConstructGraphArraysUI(n, iv) /\ UNCHANGED ring
    \/ ConstructStandalone /\ UNCHANGED ring
    \/ \E n \in WindowSizes, iv \in Intervals :
            RestartTimer(n, iv) /\ UNCHANGED ring
    \/ \E node \in Nodes \cup {None}, dt \in DataTypeNames \cup {"raise"} :
          \E v \in ValuesRead(dt \in acceptedDatatypes), c \in CallResults :
            AddScalar(node, dt, v, c[1], c[2]) /\ UNCHANGED ring
    \/ \E node \in Nodes \cup {None}, fail \in RemoveFailures :
            RemoveScalar(node, fail) /\ UNCHANGED ring
    \/ \E res \in TickResults(ScalarModeResults) :
            TickScalar(res) /\ UNCHANGED ring
    \/ \E node \in Nodes \cup {None}, v \in ArrayModeResults, c \in CallResults :
            AddArray(node, v, c[1], c[2]) /\ UNCHANGED ring
    \/ \E res \in TickResults(ArrayTickResults) :
            TickArray(res) /\ UNCHANGED ring
    \/ \E node \in Nodes \cup {None}, v \in ArrayModeResults, c \in CallResults :
            AddStandalone(node, v, c[1], c[2]) /\ UNCHANGED ring
    \/ \E node \in Nodes \cup {None}, fail \in RemoveFailures :
            RemoveStandalone(node, fail) /\ UNCHANGED ring
    \/ \E res \in TickResults(ArrayTickResults) :
            TickStandalone(res) /\ UNCHANGED ring
    \/ ClearGraphUI /\ UNCHANGED ring
    \/ ClearStandalone /\ UNCHANGED ring

Spec == Init /\ [][Next]_vars

\* ------------------------------------------- the scalar widget, one source
\* The scalar widget with window sizes up to RingMaxN, polling one node that
\* yields the samples 3.0 and 7.0 or fails to be read. ring[i] records, for
\* channel i, the buffer content when its current run of successful ticks began
\* (base) and the samples fetched since (fetched; the last len+1 are kept).
RingSamples == {3, 7}
RingResults == {Val("float", x, << >>) : x \in RingSamples} \cup {RAISE}
RingNode == 1
RingStart(ch) == [base |-> ch.data.arr, fetched |-> << >>]
\* the last m entries of s
Keep(s, m) == IF Len(s) > m THEN SubSeq(s, Len(s) - m + 1, Len(s)) ELSE s

\* ring after pushtoGraph ran with the results res
RingAfterTick(res) ==
    LET r == ScalarLoop(1, _node_list, _channels, _curves, res)
    IN  [i \in DOMAIN ring |->
            IF i > Len(_node_list) THEN ring[i]
            ELSE IF r.abort = 0 \/ i < r.abort
            THEN [ring[i] EXCEPT !.fetched =
                     Keep(Append(@, ToFloat(res[i])), Len(_channels[i].data.arr) + 1)]
            ELSE IF i = r.abort
            THEN RingStart(r.chans[i])
            ELSE ring[i]]

InitRing == Init /\ mode = "scalar"

NextRing ==
    \/ \E n \in 1..RingMaxN :
          /\ ConstructGraphUI(n, 1)
          /\ UNCHANGED ring
    \/ \E n \in 1..RingMaxN :
          /\ RestartTimer(n, 1)
          /\ ring' = [i \in DOMAIN _channels' |-> RingStart(_channels'[i])]
    \/ /\ AddScalar(RingNode, "Double", Val("float", 1, << >>), TRUE, TRUE)
       /\ ring' = IF Len(_channels') > Len(_channels)
                  THEN Append(ring, RingStart(_channels'[Len(_channels')]))
                  ELSE ring
    \/ /\ RemoveScalar(RingNode, "none")
       /\ ring' = IF Len(_channels') < Len(_channels)
                  THEN Pop(ring, IndexOf(_node_list, RingNode))
                  ELSE ring
    \/ \E res \in TickResults(RingResults) :
          /\ TickScalar(res)
          /\ ring' = RingAfterTick(res)

SpecRing == InitRing /\ [][NextRing]_vars

\* ------------------------------------------------- the timer and its ticks
\* All three widgets with one window size, poll intervals 1..MaxTimerInterval
\* and one value per kind of read: a number (scalar widget) or a one-element
\* array (array widgets), or a read that raises.
TimerIntervals == 1..MaxTimerInterval
TimerScalar == Val("float", 1, << >>)
TimerArray == Val("ndarray", 0, Upto(1))

\* the timeout signal: pushtoGraph / update_plot runs
TimerTick ==
    /\ UNCHANGED ring
    /\ \/ \E res \in TickResults({TimerScalar, RAISE}) : TickScalar(res)
       \/ \E res \in TickResults({TimerArray, RAISE}) : TickArray(res)
       \/ \E res \in TickResults({TimerArray, RAISE}) : TickStandalone(res)

\* GraphArraysUI.__init__ is straight-line code: once super().__init__ has
\* returned, the rest of the constructor runs.
FinishConstruction ==
    \E iv \in TimerIntervals : ConstructGraphArraysUI(1, iv) /\ UNCHANGED ring

NextTimer ==
    \/ \E iv \in TimerIntervals : ConstructGraphUI(1, iv) /\ UNCHANGED ring
    \/ FinishConstruction
    \/ ConstructStandalone /\ UNCHANGED ring
    \/ \E iv \in TimerIntervals : RestartTimer(1, iv) /\ UNCHANGED ring
    \/ \E node \in Nodes \cup {None}, c \in CallResults :
          AddScalar(node, "Double", TimerScalar, c[1], c[2]) /\ UNCHANGED ring
    \/ \E node \in Nodes, c \in CallResults :
          AddArray(node, TimerArray, c[1], c[2]) /\ UNCHANGED ring
    \/ \E node \in Nodes, c \in CallResults :
          AddStandalone(node, TimerArray, c[1], c[2]) /\ UNCHANGED ring
    \/ \E node \in Nodes, fail \in RemoveFailures :
          RemoveScalar(node, fail) /\ UNCHANGED ring
    \/ \E node \in Nodes, fail \in RemoveFailures :
          RemoveStandalone(node, fail) /\ UNCHANGED ring
    \/ ClearGraphUI /\ UNCHANGED ring
    \/ ClearStandalone /\ UNCHANGED ring
    \/ TimerTick

SpecTimer == Init /\ [][NextTimer]_vars

\* The event loop delivers the timeout of a running QTimer: a tick that can
\* run does not wait forever.
SpecTimerLive == SpecTimer /\ WF_vars(TimerTick) /\ WF_vars(FinishConstruction)

\* ================================================================= claims

\* C1: in the scalar widget, as long as no add or remove handler was left
\* half-way by an exception, _node_list, _channels and _curves have the same
\* length, and at every index the curve is the one created for the node at
\* that index and the channel the one created together with that curve.
C1_ListsAligned ==
    (mode = "scalar" /\ faults = 0) =>
        /\ Len(_channels) = Len(_node_list)
        /\ Len(_curves) = Len(_node_list)
        /\ \A i \in DOMAIN _node_list :
              /\ _curves[i].name = DisplayName(_node_list[i])
              /\ _curves[i].id \in pwItems
              /\ _channels[i].owner = _curves[i].id
        /\ \A i, j \in DOMAIN _curves : i # j => _curves[i].id # _curves[j].id

\* node 2 tracked before node 1, node 1 added again after a remove
C1_Witness ==
    /\ mode = "scalar" /\ faults = 0
    /\ _node_list = << 2, 1 >>
    /\ _curves[1].id = 2 /\ _curves[2].id = 1
    /\ last.op = "add" /\ last.outcome = "added"

\* C2: ring buffer of the scalar widget. For a channel whose current run of k
\* successful ticks fetched v1..vk (window size N, no reset, no failed read in
\* between): if k <= N the last k entries are v1..vk and the first N-k entries
\* are the last N-k entries the channel had before the run; if k > N the
\* channel is the last N fetched values. With N = 5 and a fresh channel, 3.0
\* then 7.0 give [0,0,0,0,3] and [0,0,0,3,7].
C2_RingBuffer ==
    /\ Len(ring) = Len(_channels)
    /\ \A i \in DOMAIN ring :
         LET d == _channels[i].data.arr
             n == Len(d)
             b == ring[i].base
             f == ring[i].fetched
             k == Len(f)
         IN  /\ n = N
             /\ k <= n => d = SubSeq(b, k + 1, n) \o f
             /\ k > n => d = SubSeq(f, k - n + 1, k)
             /\ (n = 5 /\ b = << 0, 0, 0, 0, 0 >> /\ f = << 3 >>)
                    => d = << 0, 0, 0, 0, 3 >>
             /\ (n = 5 /\ b = << 0, 0, 0, 0, 0 >> /\ f = << 3, 7 >>)
                    => d = << 0, 0, 0, 3, 7 >>

C2_Witness ==
    /\ N = 5
    /\ Len(_channels) = 1
    /\ ring[1] = [base |-> << 0, 0, 0, 0, 0 >>, fetched |-> << 3, 7 >>]
    /\ _channels[1].data.arr = << 0, 0, 0, 3, 7 >>
    /\ last.op = "tick"

\* C3: restartTimer with window size n, in the scalar widget: afterwards every
\* channel is n zeros, the curve at the same index (the channel's own) shows
\* those n zeros, and _node_list and the curve objects are the same, in the
\* same order, as before.
C3_ResetKeepsSources ==
    [][ \A n \in WindowSizes, iv \in Intervals :
          (mode = "scalar" /\ last'.op = "restart" /\ RestartTimer(n, iv)) =>
             /\ _node_list' = _node_list
             /\ Len(_curves') = Len(_curves)
             /\ Len(_channels') = Len(_channels)
             /\ \A i \in DOMAIN _curves : _curves'[i].id = _curves[i].id
             /\ \A i \in DOMAIN _channels :
                   /\ _channels'[i].data.arr = [j \in 1..n |-> 0]
                   /\ _curves'[i].y = [j \in 1..n |-> 0]
                   /\ _curves'[i].id = _channels'[i].owner ]_vars

C3_Witness ==
    /\ mode = "scalar"
    /\ last.op = "restart"
    /\ Len(_node_list) = 2 /\ Len(_channels) = 2
    /\ N = MaxN
    /\ \A i \in DOMAIN _channels : _channels[i].data.arr = [j \in 1..N |-> 0]

\* C4: adding a node that is already tracked changes none of the three lists,
\* in the scalar widget and in the array widgets, and no node ever occurs twice
\* in _node_list.
C4_NoDuplicates ==
    \A i, j \in DOMAIN _node_list : i # j => _node_list[i] # _node_list[j]

\* a step that changes one of the lists is no add of a node already tracked
C4_DupAddNoOp ==
    /\ []C4_NoDuplicates
    /\ [][ \/ UNCHANGED << _node_list, _channels, _curves >>
           \/ last'.op # "add"
           \/ \A node \in Range(_node_list) :
                 /\ mode = "scalar" =>
                       \A dt \in DataTypeNames \cup {"raise"}, v \in ScalarModeResults,
                          c \in CallResults : ~AddScalar(node, dt, v, c[1], c[2])
                 /\ mode = "array" =>
                       \A v \in ArrayModeResults, c \in CallResults :
                          ~AddArray(node, v, c[1], c[2])
                 /\ mode = "standalone" =>
                       \A v \in ArrayModeResults, c \in CallResults :
                          ~AddStandalone(node, v, c[1], c[2]) ]_vars

C4_Witness ==
    /\ mode = "array"
    /\ Len(_node_list) = 2
    /\ last.op = "add" /\ last.outcome = "dup"

\* C5: removing the tracked node at index idx removes exactly entry idx of
\* _node_list, _channels and _curves and detaches that curve from the plot;
\* removing a node that is not tracked changes nothing.
C5_RemoveExact ==
    [][ \A node \in Nodes, fail \in RemoveFailures :
          (last'.op = "remove" /\ mode = "scalar" /\ RemoveScalar(node, fail)) =>
             IF node \in Range(_node_list)
             THEN LET idx == IndexOf(_node_list, node)
                  IN  /\ _node_list' = Pop(_node_list, idx)
                      /\ _channels' = Pop(_channels, idx)
                      /\ _curves' = Pop(_curves, idx)
                      /\ idx <= Len(_curves) => _curves[idx].id \notin pwItems'
             ELSE UNCHANGED << _node_list, _channels, _curves >> ]_vars

\* C6: in the scalar widget, adding an untracked node whose data type is not
\* in the allowlist, or whose value is a list, a tuple or an array, leaves the
\* three lists unchanged (stated for adds in which the display-name read and
\* the curve creation return normally).
SequenceTyped(v) == v.kind \in {"list", "tuple", "ndarray"}

C6_SequenceRejected ==
    [][ \A node \in Nodes \ Range(_node_list), dt \in DataTypeNames,
           v \in ScalarModeResults :
          ( /\ last'.op = "add"
            /\ AddScalar(node, dt, v, TRUE, TRUE)
            /\ (dt \notin acceptedDatatypes \/ SequenceTyped(v)) )
          => UNCHANGED << _node_list, _channels, _curves >> ]_vars

\* C7: in the array widgets, adding a node whose value is no list, tuple or
\* array, or whose value read raises, leaves every list unchanged.
C7_NonArrayRejected ==
    [][ \/ UNCHANGED << _node_list, _channels, _curves >>
        \/ last'.op # "add"
        \/ \A node \in Nodes, v \in ArrayModeResults, c \in CallResults :
              SequenceTyped(v) \/
              ~(AddArray(node, v, c[1], c[2]) \/ AddStandalone(node, v, c[1], c[2])) ]_vars

C7_Witness ==
    /\ mode = "array"
    /\ Len(_node_list) = 1
    /\ last.op = "add" /\ last.outcome = "rejected"

\* C8: array widget of graphwidget.py. An add in which every call succeeds
\* appends the node, a channel equal to the fetched array and a curve showing
\* that array against 0..len-1; a tick makes every channel whose node returned
\* an array equal to that array, and its curve shows it against 0..len-1.
C8_ArraySnapshot ==
    [][ /\ \A node \in Nodes \ Range(_node_list), v \in ArrayValues :
             (last'.op = "add" /\ AddArray(node, v, TRUE, TRUE)) =>
                /\ _node_list' = Append(_node_list, node)
                /\ Len(_channels') = Len(_channels) + 1
                /\ Len(_curves') = Len(_curves) + 1
                /\ _channels'[Len(_channels')].data.arr = v.arr
                /\ _curves'[Len(_curves')].y = v.arr
                /\ _curves'[Len(_curves')].x = [j \in 1..Len(v.arr) |-> j - 1]
        /\ \A res \in TickResults(ArrayTickResults) :
             (last'.op = "tick" /\ TickArray(res)) =>
                \A i \in DOMAIN _node_list :
                   (SequenceTyped(res[i]) /\ i <= Len(_channels)) =>
                      /\ _channels'[i].data.arr = res[i].arr
                      /\ _curves'[i].y = res[i].arr
                      /\ _curves'[i].x = [j \in 1..Len(res[i].arr) |-> j - 1] ]_vars

C8_Witness ==
    /\ mode = "array"
    /\ Len(_node_list) = 1 /\ Len(_channels) = 1 /\ Len(_curves) = 1
    /\ last.op = "add" /\ last.outcome = "added"
    /\ _channels[1].data.arr = << 1, 2, 3 >>
    /\ _curves[1].y = << 1, 2, 3 >>
    /\ _curves[1].x = << 0, 1, 2 >>

\* C9: array widgets. In a tick, a node whose read raises or returns no array
\* leaves its channel and curve as they were; every other node is still read,
\* and its channel and curve take the array it returned, whether it comes
\* before or after the failing node.
C9_TickSkipsOnlyFailing ==
    [][ \A res \in TickResults(ArrayTickResults) :
          (last'.op = "tick" /\ (TickArray(res) \/ TickStandalone(res))) =>
             /\ Len(_channels') = Len(_channels)
             /\ Len(_curves') = Len(_curves)
             /\ \A i \in DOMAIN _node_list :
                   IF SequenceTyped(res[i])
                   THEN /\ i <= Len(_channels) => _channels'[i].data.arr = res[i].arr
                        /\ i <= Len(_curves) => _curves'[i].y = res[i].arr
                   ELSE /\ i <= Len(_channels) => _channels'[i] = _channels[i]
                        /\ i <= Len(_curves) => _curves'[i] = _curves[i] ]_vars

C9_Witness ==
    /\ mode = "array"
    /\ faults = 0
    /\ Len(_node_list) = 2
    /\ last.op = "tick" /\ last.skipped = {1}
    /\ _channels[1].data.arr = << 1 >>
    /\ _channels[2].data.arr = << 1, 2 >>

\* C10: scalar widget. When in a tick the read or the float() of the node at
\* index i fails, the loop ends there: the channels below i hold their new
\* sample and their curves show it, the channels and curves above i are as
\* they were.
Fails(v) == v = RAISE \/ v.kind \in {"str", "list", "tuple"}
               \/ (v.kind = "ndarray" /\ Len(v.arr) # 1)
Sample(v) == IF v.kind = "ndarray" THEN v.arr[1] ELSE v.val

C10_ScalarTickAborts ==
    [][ \A res \in TickResults(ScalarModeResults) :
          (last'.op = "tick" /\ TickScalar(res)) =>
             \A i \in DOMAIN _node_list :
                (Fails(res[i]) /\ i <= Len(_channels)
                    /\ \A j \in 1..(i - 1) : ~Fails(res[j])) =>
                   /\ last'.outcome = "aborted" /\ last'.idx = i
                   /\ \A j \in 1..(i - 1) :
                         /\ _channels'[j].data.arr =
                               Tail(_channels[j].data.arr) \o << Sample(res[j]) >>
                         /\ _curves'[j].y = _channels'[j].data.arr
                         /\ _curves'[j].x = [m \in 1..N |-> m - 1]
                   /\ \A j \in (i + 1)..Len(_channels) :
                         /\ _channels'[j] = _channels[j]
                         /\ _curves'[j] = _curves[j] ]_vars

C10_Witness ==
    /\ mode = "scalar"
    /\ Len(_node_list) = 2
    /\ last.op = "tick" /\ last.outcome = "aborted" /\ last.idx = 2
    /\ _channels[1].data.arr[N] = 1

\* C11: a successful add gives the new curve the palette colour at (index of
\* the new node in _node_list) mod (palette size), indices counted from 0: the
\* first node of an empty widget gets palette entry 0, the second entry 1.
\* colorCycle is a 1-based sequence here, so palette entry k is colorCycle[k + 1].
C11_ColourByIndex ==
    [][ \A node \in Nodes \ Range(_node_list) :
          ( /\ last'.op = "add" /\ last'.outcome = "added"
            /\ \/ \E dt \in DataTypeNames, v \in ScalarModeResults :
                     AddScalar(node, dt, v, TRUE, TRUE)
               \/ \E v \in ArrayModeResults : AddArray(node, v, TRUE, TRUE) )
          => _curves'[Len(_curves')].color =
                colorCycle[(Len(_node_list) % Len(colorCycle)) + 1] ]_vars

\* C12 (as the specification words it): a newly constructed widget is Idle, no
\* timer is running.
C12_StartsIdle ==
    (pc = "ready" /\ last.op = "init" /\ mode \in {"scalar", "array"}) => ~timer.active

\* C12 (amended): a constructed widget is Polling from the start, because
\* __init__ itself runs restartTimer; in the widgets of graphwidget.py a timer
\* only ever becomes active in restartTimer; and no step brings an active timer
\* back to Idle.
C12_PollingFromConstruction ==
    /\ [](pc = "ready" => (timer.exists /\ timer.active))
    /\ [][ (mode \in {"scalar", "array"} /\ ~timer.active /\ timer'.active)
              => last'.outcome = "restarted" ]_vars
    /\ [][ timer.active => timer'.active ]_vars

C12_Witness ==
    /\ mode = "scalar"
    /\ pc = "ready"
    /\ last.op = "init"
    /\ timer.active /\ timer.interval = 2

\* C13: at most one QTimer is running in every reachable state: restartTimer
\* stops the running timer before it starts the next one, also in the two
\* restartTimer calls of the array widget's construction; so a tick can only
\* come from self.timer, whose interval is the one configured last.
ActiveTimers == timer.unstopped + (IF timer.active THEN 1 ELSE 0)

C13_OneTimer ==
    /\ ActiveTimers <= 1
    /\ Firing => (timer.active /\ timer.unstopped = 0)
    /\ (mode \in {"scalar", "array"} /\ timer.active) => timer.interval = intervall

C13_Witness ==
    /\ mode = "array"
    /\ pc = "ready"
    /\ last.op = "restart"
    /\ timer.active /\ timer.interval = 2
    /\ Len(_node_list) = 1

\* C14: once restartTimer has run, and the timeout of a running timer is
\* always delivered in the end, ticks happen again and again without end,
\* whatever adds, removes, clears and further restartTimer calls come between.
C14_TicksForever ==
    [](last.outcome = "restarted" => []<>(last.op = "tick"))

C14_Witness ==
    /\ mode = "scalar"
    /\ last.op = "tick"
    /\ timer.active /\ timer.interval = 2
    /\ Len(_node_list) = 2 /\ Len(_channels) = 2
    /\ _channels[1].data.arr = << 1 >>

\* C15: after an add or a remove in which a call into the client or the
\* plotting library raised (the exception being swallowed by trycatchslot or by
\* the try block), the lists still have equal length and matching indices.
C15_AllOrNothing ==
    (last.op \in {"add", "remove"} /\ last.outcome = "error") =>
       /\ Len(_curves) = Len(_node_list)
       /\ mode \in {"scalar", "array"} => Len(_channels) = Len(_node_list)
       /\ \A i \in DOMAIN _node_list :
             i \in DOMAIN _curves => _curves[i].name = DisplayName(_node_list[i])

\* C16: scalar widget. When in a tick the read or the float() of the node at
\* index i fails, the channel at i holds the same samples in the same order as
\* before the tick.
C16_FailedTickKeepsChannel ==
    [][ \A res \in TickResults(ScalarModeResults) :
          (last'.op = "tick" /\ last'.outcome = "aborted" /\ TickScalar(res)) =>
             \A i \in DOMAIN _node_list :
                (Fails(res[i]) /\ i <= Len(_channels)
                    /\ \A j \in 1..(i - 1) : ~Fails(res[j])) =>
                   _channels'[i].data.arr = _channels[i].data.arr ]_vars

\* C17: scalar widget. In every state of a constructed widget every channel
\* has as many samples as the window size N, and ts has N entries, so the
\* x-axis and the buffer a tick hands to a curve have the same length; every
\* curve holds x and y data of equal length.
C17_ChannelLength ==
    (mode = "scalar" /\ pc = "ready") =>
       /\ Len(ts) = N
       /\ \A i \in DOMAIN _channels : Len(_channels[i].data.arr) = N
       /\ \A i \in DOMAIN _curves :
             Len(_curves[i].x) = Len(_curves[i].y) /\ Len(_curves[i].y) = N

C17_Witness ==
    /\ mode = "scalar"
    /\ N = 1
    /\ last.op = "tick" /\ last.outcome = "done"
    /\ Len(_node_list) = 2 /\ Len(_channels) = 2
    /\ _channels[1].data.arr = << 1 >>
    /\ _curves[1].x = << 0 >> /\ _curves[1].y = << 1 >>

\* C18: whenever no more sources are tracked than the palette has colours, no
\* two tracked sources have curves of the same colour (stated for widgets in
\* which no add or remove was left half-way by an exception).
C18_DistinctColours ==
    (faults = 0 /\ Len(_curves) <= Len(colorCycle)) =>
       \A i, j \in DOMAIN _curves : i # j => _curves[i].color # _curves[j].color

\* C19: clear() on the scalar widget and on the array widget derived from it
\* changes nothing: nodes, channels, curves, the plot and the running timer
\* are as before, and a tick that follows still reads every tracked node (each
\* channel of the scalar widget moves on by one sample). clear() on the
\* standalone array widget empties the node list and the curve list together
\* and leaves its timer running, and a tick that follows reads nothing.
C19_Clear ==
    /\ [][ (last'.op = "clear" /\ mode \in {"scalar", "array"}) =>
              UNCHANGED << _node_list, _channels, _curves, pwItems,
                           timer, N, ts, intervall >> ]_vars
    /\ [][ (last'.op = "clear" /\ mode = "standalone") =>
              /\ _node_list' = << >> /\ _curves' = << >> /\ pwItems' = {}
              /\ UNCHANGED timer ]_vars
    /\ [](last.op = "clear" => Firing)
    /\ [][ (last.op = "clear" /\ last'.op = "tick" /\ last'.outcome = "done"
               /\ mode = "scalar" /\ faults = 0) =>
              /\ Len(_channels') = Len(_node_list)
              /\ \A i \in DOMAIN _node_list :
                    SubSeq(_channels'[i].data.arr, 1, N - 1) = Tail(_channels[i].data.arr)
           ]_vars
    /\ [][ (last.op = "clear" /\ last'.op = "tick" /\ mode = "standalone") =>
              (last'.skipped = {} /\ _curves' = << >>) ]_vars

C19_Witness ==
    /\ mode = "scalar"
    /\ last.op = "clear"
    /\ timer.active
    /\ Len(_node_list) = 2 /\ Len(_channels) = 2 /\ Len(_curves) = 2
    /\ _channels[1].data.arr = << 0, 1 >>

====
